---------------------------- MODULE Spec2Model ----------------------------
(***************************************************************************)
(* Model of the feedback-driven weight adapter (backend/feedback.py,       *)
(* FeedbackCollector) and of the score combiner (backend/matching.py,      *)
(* CandidateJobMatcher).                                                   *)
(*                                                                         *)
(* Numbers.  The code computes in IEEE doubles; the model computes in      *)
(* exact rationals:                                                        *)
(*   - the two weights of an object share one denominator: the record      *)
(*     [similarity_weight |-> s, screening_weight |-> c, den |-> d]        *)
(*     stands for similarity_weight = s/d and screening_weight = c/d;      *)
(*   - confidence is counted in twentieths (0.05);                         *)
(*   - a feedback final_score is counted in tenths;                        *)
(*   - a screening score and a returned final_score are counted in         *)
(*     hundredths, a returned weight or similarity in thousandths.         *)
(* The rounding error of the doubles (about 1e-16 per operation) is not    *)
(* modelled.                                                               *)
(***************************************************************************)
EXTENDS Integers, Sequences, FiniteSets, TLC

VARIABLES
    feedback,        \* the rows of table feedback, in insertion order
    weight_history,  \* the rows of table weight_history, in insertion order
    fc,              \* fc[i]: the fields of FeedbackCollector instance i
    matcher,         \* the fields of the CandidateJobMatcher
    now,             \* the database clock (CURRENT_TIMESTAMP), in seconds
    call,            \* the operation that ran last, and what it returned
    snap,            \* snap[i]: the get_weights snapshot last taken on i
    budget,          \* calls made so far: [records, resets, faults, restarts]
    reading          \* the get_feedback_analytics call in progress

vars == <<feedback, weight_history, fc, matcher, now, call, snap, budget, reading>>

---------------------------------------------------------------------------
(* Bounds of the model.                                                    *)

\* record_feedback calls that write a row in one behaviour of Spec and of
\* SpecFaults
MaxRecords == 2
\* record_feedback calls that write a row in one behaviour of SpecDeep
MaxDeep == 7
\* reset_weights calls in one behaviour
MaxResets == 1
\* storage faults in one behaviour of SpecFaults
MaxFaults == 1
\* candidates in one batch_match_candidates call of SpecMatch
MaxBatch == 3
\* record_feedback calls in one behaviour of SpecScenario
MaxScenario == 6
\* record_feedback calls in one behaviour of SpecReinforce
MaxReinforce == 5
\* record_feedback calls in one behaviour of SpecBurst
MaxBurst == 7
\* record_feedback calls and constructions in one behaviour of SpecRestart
MaxRestartRecords == 3
MaxRestarts == 1
\* record_feedback calls of the other instance in one behaviour of SpecRace
MaxRace == 2
\* largest weight denominator from which a pass is still computed (TLC's
\* integers are 32 bits wide: a pass multiplies the denominator by up to 410)
MaxDen == 500000

---------------------------------------------------------------------------
(* Units and program constants.                                            *)

\* the weight deltas are multiples of 1/400 (lr * 0.25 = 0.0125 = 5/400)
DeltaUnit == 400
\* the clamp bounds are given in tenths
ClampUnit == 10
\* confidence is counted in twentieths
ConfUnit == 20

\* self.learning_rate = 0.05, in 1/DeltaUnit
learning_rate == 20
\* self.min_feedback_for_adjustment = 5
min_feedback_for_adjustment == 5
\* _get_recent_feedback(limit=10)
RecentLimit == 10
\* the clamp bounds 0.3, 0.8, 0.2, 0.7, in tenths
SimilarityMin == 3
SimilarityMax == 8
ScreeningMin == 2
ScreeningMax == 7
\* the rule thresholds 6.5, 5.0, 7.5, in tenths
HighRejectedAvg == 65
LowAvg == 50
HighAcceptedAvg == 75
\* the average of an empty subset, 5.0, in tenths
EmptyAvg == 50
\* the confidence cap 0.95 and the steps 0.1 and 0.05, in twentieths
ConfidenceCap == 19
ReinforceStep == 2
FilteringStep == 1
\* the defaults 0.6 / 0.4 (in fifths) and 0.5 (in twentieths)
DefaultDen == 5
DefaultSimilarity == 3
DefaultScreening == 2
DefaultConfidence == 10

GoodFit == "Good Fit"
NotAFit == "Not a Fit"

---------------------------------------------------------------------------
(* Arithmetic helpers.                                                     *)

Max(a, b) == IF a >= b THEN a ELSE b
Min(a, b) == IF a <= b THEN a ELSE b

RECURSIVE GCD(_, _)
GCD(a, b) == IF b = 0 THEN a ELSE GCD(b, a % b)

\* n/d rounded to the nearest integer, ties to even (Python's round), n >= 0
RoundDiv(n, d) ==
    LET q == n \div d
        r == n % d
    IN  IF 2 * r > d THEN q + 1
        ELSE IF 2 * r < d THEN q
        ELSE IF q % 2 = 0 THEN q ELSE q + 1

\* round(n/d, 3) in thousandths, for 0 <= n <= d, computed digit by digit so
\* that no intermediate value exceeds 10 * d
Round3(n, d) ==
    IF n = d THEN 1000
    ELSE LET d1 == (n * 10) \div d
             r1 == (n * 10) % d
             d2 == (r1 * 10) \div d
             r2 == (r1 * 10) % d
             d3 == (r2 * 10) \div d
             r3 == (r2 * 10) % d
             q  == 100 * d1 + 10 * d2 + d3
         IN  IF r3 > d - r3 THEN q + 1
             ELSE IF r3 < d - r3 THEN q
             ELSE IF q % 2 = 0 THEN q ELSE q + 1

\* the weights w over the smallest common denominator
Reduce(w) ==
    LET g == GCD(GCD(w.similarity_weight, w.screening_weight), w.den)
    IN  [similarity_weight |-> w.similarity_weight \div g,
         screening_weight  |-> w.screening_weight \div g,
         den               |-> w.den \div g]

Weights(o) ==
    [similarity_weight |-> o.similarity_weight,
     screening_weight  |-> o.screening_weight,
     den               |-> o.den]

DefaultWeights ==
    [similarity_weight |-> DefaultSimilarity,
     screening_weight  |-> DefaultScreening,
     den               |-> DefaultDen]

---------------------------------------------------------------------------
(* FeedbackCollector: the adjustment pass, as pure functions.              *)

\* (mutant) any non-empty feedback value is accepted
AnyFeedback(f) == f # ""

\* record_feedback's validation
ValidFeedback(f) == f \in {GoodFit, NotAFit}

\* (mutant) the pass runs once, when the threshold is reached
ShouldAdjustOnce(feedback_count) == feedback_count = min_feedback_for_adjustment

\* _try_adjust_weights: the trigger rule
ShouldAdjust(feedback_count) == feedback_count >= min_feedback_for_adjustment

RECURSIVE SumScores(_)
SumScores(rows) ==
    IF rows = <<>> THEN 0
    ELSE Head(rows).final_score + SumScores(Tail(rows))

IsGoodFit(row) == row.feedback = GoodFit
IsNotAFit(row) == row.feedback = NotAFit

good_fits(feedback_data) == SelectSeq(feedback_data, IsGoodFit)
not_fits(feedback_data) == SelectSeq(feedback_data, IsNotAFit)

\* sum(final_score) / len > t and < t, t in tenths; 5.0 for an empty subset
AvgAbove(rows, t) ==
    IF rows = <<>> THEN EmptyAvg > t ELSE SumScores(rows) > t * Len(rows)
AvgBelow(rows, t) ==
    IF rows = <<>> THEN EmptyAvg < t ELSE SumScores(rows) < t * Len(rows)

\* (mutant) the patterns are tested from the last to the first
PatternLastFirst(feedback_data) ==
    LET gf == good_fits(feedback_data)
        nf == not_fits(feedback_data)
    IN  IF nf # <<>> /\ AvgBelow(nf, LowAvg) THEN 4
        ELSE IF gf # <<>> /\ AvgAbove(gf, HighAcceptedAvg) THEN 3
        ELSE IF gf # <<>> /\ AvgBelow(gf, LowAvg) THEN 2
        ELSE IF nf # <<>> /\ AvgAbove(nf, HighRejectedAvg) THEN 1
        ELSE 0

\* the pattern that applies to feedback_data: 1..4, or 0 when none does
Pattern(feedback_data) ==
    LET gf == good_fits(feedback_data)
        nf == not_fits(feedback_data)
    IN  IF nf # <<>> /\ AvgAbove(nf, HighRejectedAvg) THEN 1
        ELSE IF gf # <<>> /\ AvgBelow(gf, LowAvg) THEN 2
        ELSE IF gf # <<>> /\ AvgAbove(gf, HighAcceptedAvg) THEN 3
        ELSE IF nf # <<>> /\ AvgBelow(nf, LowAvg) THEN 4
        ELSE 0

\* (mutant) pattern 3 raises the similarity weight by learning_rate * 0.6
DeltaSimilarityReinforcedTwice(p) ==
    CASE p = 1 -> 0 - learning_rate
      [] p = 2 -> 0 - (learning_rate * 25) \div 100
      [] p = 3 -> (learning_rate * 6) \div 10
      [] OTHER -> 0

\* delta_similarity and delta_screening of a pattern, in 1/DeltaUnit
delta_similarity(p) ==
    CASE p = 1 -> 0 - learning_rate
      [] p = 2 -> 0 - (learning_rate * 25) \div 100
      [] p = 3 -> (learning_rate * 3) \div 10
      [] OTHER -> 0

\* (mutant) pattern 1 lowers the screening weight too
DeltaScreeningLowered(p) ==
    CASE p = 1 -> 0 - learning_rate
      [] p = 2 -> (learning_rate * 5) \div 10
      [] p = 3 -> (learning_rate * 2) \div 10
      [] OTHER -> 0

delta_screening(p) ==
    CASE p = 1 -> learning_rate
      [] p = 2 -> (learning_rate * 5) \div 10
      [] p = 3 -> (learning_rate * 2) \div 10
      [] OTHER -> 0

trigger_action(p) ==
    CASE p = 1 -> "Reduce similarity weight (false positives detected)"
      [] p = 2 -> "Increase screening weight (good low-score candidates)"
      [] p = 3 -> "Reinforce current weights (strong matches)"
      [] p = 4 -> "Low scores consistently rejected (good filtering)"
      [] OTHER -> ""

ManualReset == "Manual reset to defaults"

\* (mutant) pattern 4 leaves the confidence as it is
AdjustedConfidenceReinforcingOnly(p, confidence) ==
    IF p = 3 THEN Min(ConfidenceCap, confidence + ReinforceStep) ELSE confidence

\* (mutant) the confidence grows without the cap
AdjustedConfidenceUncapped(p, confidence) ==
    CASE p = 3 -> confidence + ReinforceStep
      [] p = 4 -> confidence + FilteringStep
      [] OTHER -> confidence

\* self.confidence after the pattern's branch
AdjustedConfidence(p, confidence) ==
    CASE p = 3 -> Min(ConfidenceCap, confidence + ReinforceStep)
      [] p = 4 -> Min(ConfidenceCap, confidence + FilteringStep)
      [] OTHER -> confidence

\* w + (ds, dc), over a denominator that DeltaUnit and ClampUnit divide
Shifted(w, ds, dc) ==
    LET d2 == (w.den * DeltaUnit) \div GCD(w.den, DeltaUnit)
    IN  [similarity_weight |-> w.similarity_weight * (d2 \div w.den)
                                 + ds * (d2 \div DeltaUnit),
         screening_weight  |-> w.screening_weight * (d2 \div w.den)
                                 + dc * (d2 \div DeltaUnit),
         den               |-> d2]

\* (mutant) the similarity weight is capped but has no floor
ClampSimilarityNoFloor(x, den) == Min((SimilarityMax * den) \div ClampUnit, x)

\* max(0.3, min(0.8, similarity)) and max(0.2, min(0.7, screening))
ClampSimilarity(x, den) ==
    Max((SimilarityMin * den) \div ClampUnit,
        Min((SimilarityMax * den) \div ClampUnit, x))

\* (mutant) the screening weight has a floor but no cap
ClampScreeningNoCap(x, den) == Max((ScreeningMin * den) \div ClampUnit, x)

ClampScreening(x, den) ==
    Max((ScreeningMin * den) \div ClampUnit,
        Min((ScreeningMax * den) \div ClampUnit, x))

Clamped(w) ==
    [similarity_weight |-> ClampSimilarity(w.similarity_weight, w.den),
     screening_weight  |-> ClampScreening(w.screening_weight, w.den),
     den               |-> w.den]

\* (mutant) the clamped weights are not divided by their total
Unnormalized(w) == w

\* total = similarity + screening; both divided by total when total > 0
Normalized(w) ==
    LET total == w.similarity_weight + w.screening_weight
    IN  IF total > 0
        THEN [similarity_weight |-> w.similarity_weight,
              screening_weight  |-> w.screening_weight,
              den               |-> total]
        ELSE w

\* the weights after "Apply weight adjustments"
AdjustedWeights(w, p) ==
    IF delta_similarity(p) # 0 \/ delta_screening(p) # 0
    THEN Reduce(Normalized(Clamped(
             Shifted(w, delta_similarity(p), delta_screening(p)))))
    ELSE w

---------------------------------------------------------------------------
(* FeedbackCollector: the two tables.                                      *)

\* SELECT COUNT(*) FROM feedback
FeedbackCount(rows) == Len(rows)

RECURSIVE RowsDesc(_, _)
\* the rows with an index in S, the latest first
RowsDesc(rows, S) ==
    IF S = {} THEN <<>>
    ELSE LET m == CHOOSE x \in S : \A y \in S : y <= x
         IN  <<rows[m]>> \o RowsDesc(rows, S \ {m})

\* SELECT ... ORDER BY created_at DESC LIMIT limit: every result the query may
\* give. Rows of one second tie, and the order of tied rows is not defined, so
\* when the cut falls inside a second any of its rows may be taken.
RecentFeedback(rows, limit) ==
    LET n == Len(rows)
    IN  IF n <= limit THEN {RowsDesc(rows, 1..n)}
        ELSE LET cut   == rows[n - limit + 1].created_at
                 later == {k \in 1..n : rows[k].created_at > cut}
                 tied  == {k \in 1..n : rows[k].created_at = cut}
             IN  {RowsDesc(rows, later \cup X) :
                    X \in {Y \in SUBSET tied :
                             Cardinality(Y) = limit - Cardinality(later)}}

FeedbackRow(id, candidate_id, hiring_manager_id, final_score, fb, notes, t) ==
    [id |-> id, candidate_id |-> candidate_id,
     hiring_manager_id |-> hiring_manager_id, final_score |-> final_score,
     feedback |-> fb, notes |-> notes, created_at |-> t]

\* (mutant) the row holds the default weights and confidence
HistoryRowOfDefaults(id, o, trigger, feedback_count, t) ==
    [id |-> id, similarity_weight |-> DefaultSimilarity,
     screening_weight |-> DefaultScreening, den |-> DefaultDen,
     confidence |-> DefaultConfidence, trigger_action |-> trigger,
     feedback_count |-> feedback_count, created_at |-> t]

\* the row _record_weight_adjustment inserts for object o
HistoryRow(id, o, trigger, feedback_count, t) ==
    [id |-> id, similarity_weight |-> o.similarity_weight,
     screening_weight |-> o.screening_weight, den |-> o.den,
     confidence |-> o.confidence, trigger_action |-> trigger,
     feedback_count |-> feedback_count, created_at |-> t]

\* FeedbackCollector.__init__: the fields of a new instance
NewCollector ==
    [similarity_weight |-> DefaultSimilarity,
     screening_weight  |-> DefaultScreening,
     den               |-> DefaultDen,
     confidence        |-> DefaultConfidence]

\* CandidateJobMatcher.__init__: the fields of a new matcher
NewMatcher ==
    [similarity_weight |-> DefaultSimilarity,
     screening_weight  |-> DefaultScreening,
     den               |-> DefaultDen]

---------------------------------------------------------------------------
(* CandidateJobMatcher: compute_match, as pure functions.                  *)

RECURSIVE Dot(_, _)
Dot(a, b) ==
    IF a = <<>> THEN 0 ELSE Head(a) * Head(b) + Dot(Tail(a), Tail(b))

\* the Euclidean norm of an embedding whose norm is an integer
Norm(a) == LET q == Dot(a, a) IN CHOOSE n \in 0..q : n * n = q

\* sklearn's cosine_similarity of two rows of equal length, as a fraction; a
\* zero vector is left unnormalised, which gives 0
CosineSimilarity(a, b) ==
    IF Norm(a) = 0 \/ Norm(b) = 0 THEN [num |-> 0, den |-> 1]
    ELSE [num |-> Dot(a, b), den |-> Norm(a) * Norm(b)]

\* _compute_cosine_similarity: (similarity + 1) / 2
NormalizedSimilarity(a, b) ==
    LET c == CosineSimilarity(a, b)
    IN  [num |-> c.num + c.den, den |-> 2 * c.den]

\* (mutant) the similarity term counts the distance 1 - similarity
FinalScoreOfDistance(w, sim, screening_score) ==
    [num |-> 1000 * w.similarity_weight * (sim.den - sim.num)
               + w.screening_weight * screening_score * sim.den,
     den |-> 100 * w.den * sim.den]

\* (mutant) the final score is left on the 0-1 scale
FinalScoreUnscaled(w, sim, screening_score) ==
    [num |-> 1000 * w.similarity_weight * sim.num
               + w.screening_weight * screening_score * sim.den,
     den |-> 1000 * w.den * sim.den]

\* final_score_scaled = (similarity_weight * similarity
\*                        + screening_weight * screening_score / 10) * 10,
\* as a fraction; screening_score in hundredths
FinalScoreScaled(w, sim, screening_score) ==
    [num |-> 1000 * w.similarity_weight * sim.num
               + w.screening_weight * screening_score * sim.den,
     den |-> 100 * w.den * sim.den]

StrongMatch == "STRONG MATCH - Recommend immediate interview/next round"
GoodMatch == "GOOD MATCH - Recommend for consideration"
ModerateMatch == "MODERATE MATCH - Consider if other candidates limited"
WeakMatch == "WEAK MATCH - Not recommended at this time"
PoorMatch == "POOR MATCH - Do not recommend"

\* _get_recommendation of the fraction f
Recommendation(f) ==
    IF f.num >= 8 * f.den THEN StrongMatch
    ELSE IF f.num >= 7 * f.den THEN GoodMatch
    ELSE IF f.num >= 6 * f.den THEN ModerateMatch
    ELSE IF f.num >= 5 * f.den THEN WeakMatch
    ELSE PoorMatch

\* _generate_explanation: the two phrases chosen (the figures in brackets are
\* left out)
Explanation(sim, screening_score) ==
    <<IF 10 * sim.num >= 9 * sim.den THEN "Strong technical compatibility"
      ELSE IF 10 * sim.num >= 7 * sim.den THEN "Good technical fit"
      ELSE IF 10 * sim.num >= 5 * sim.den THEN "Moderate technical overlap"
      ELSE "Limited technical match",
      IF screening_score >= 800 THEN "Excellent screening performance"
      ELSE IF screening_score >= 600 THEN "Good screening results"
      ELSE IF screening_score >= 400 THEN "Acceptable responses"
      ELSE "Poor screening performance">>

\* the dict compute_match returns
MatchResult(w, sim, screening_score) ==
    LET scaled == FinalScoreScaled(w, sim, screening_score)
    IN  [similarity_score |-> RoundDiv(1000 * sim.num, sim.den),
         screening_score  |-> screening_score,
         final_score      |-> RoundDiv(100 * scaled.num, scaled.den),
         recommendation   |-> Recommendation(scaled),
         explanation      |-> Explanation(sim, screening_score)]

\* (mutant) compute_match without the check of the screening score
MatchErrorNoRange(hiring_embedding, candidate_embedding, screening_score) ==
    IF hiring_embedding = <<>> \/ candidate_embedding = <<>>
    THEN "Both embeddings must be provided"
    ELSE IF Len(hiring_embedding) # Len(candidate_embedding)
    THEN "Incompatible dimension for X and Y matrices"
    ELSE ""

\* the message of the ValueError compute_match ends in, "" when it returns:
\* its two checks, then the check sklearn's cosine_similarity makes of the two
\* rows before it multiplies them
MatchError(hiring_embedding, candidate_embedding, screening_score) ==
    IF hiring_embedding = <<>> \/ candidate_embedding = <<>>
    THEN "Both embeddings must be provided"
    ELSE IF screening_score < 0 \/ screening_score > 1000
    THEN "Screening score must be between 0 and 10"
    ELSE IF Len(hiring_embedding) # Len(candidate_embedding)
    THEN "Incompatible dimension for X and Y matrices"
    ELSE ""

\* batch_match_candidates: the result appended for one candidate, the
\* sentinel's final_score -1 in hundredths
CandidateResult(w, hiring_embedding, candidate) ==
    LET err == MatchError(hiring_embedding, candidate.embedding,
                          candidate.screening_score)
    IN  IF err # ""
        THEN [candidate_id |-> candidate.id, error |-> err,
              final_score |-> -100]
        ELSE [candidate_id |-> candidate.id] @@
             MatchResult(w, NormalizedSimilarity(hiring_embedding,
                                                 candidate.embedding),
                         candidate.screening_score)

RECURSIVE CandidateResults(_, _, _)
\* the list `results` after the loop
CandidateResults(w, hiring_embedding, candidates) ==
    IF candidates = <<>> THEN <<>>
    ELSE <<CandidateResult(w, hiring_embedding, Head(candidates))>> \o
         CandidateResults(w, hiring_embedding, Tail(candidates))

\* r put into the descending list s, before the results that do not exceed it
InsertDescending(r, s) ==
    LET k == Cardinality({j \in 1..Len(s) :
                            s[j].final_score > r.final_score})
    IN  SubSeq(s, 1, k) \o <<r>> \o SubSeq(s, k + 1, Len(s))

\* (mutant) the results are returned in the order of the candidates
Unsorted(results) == results

RECURSIVE SortDescending(_)
\* results.sort(key=final_score, reverse=True): descending and stable
SortDescending(results) ==
    IF results = <<>> THEN <<>>
    ELSE InsertDescending(Head(results), SortDescending(Tail(results)))

---------------------------------------------------------------------------
(* State.                                                                  *)

Instances == {1, 2}

NoSnapshot ==
    [similarity_weight |-> 0, screening_weight |-> 0, confidence |-> 0,
     total_feedback |-> 0]

NoMatch ==
    [similarity_score |-> 0, screening_score |-> 0, final_score |-> 0,
     recommendation |-> "", explanation |-> <<"", "">>]

NoSnap == [valid |-> FALSE, weights |-> NoSnapshot, reset |-> FALSE]

NoAnalytics ==
    [total_feedback |-> 0, good_fit_count |-> 0, not_fit_count |-> 0,
     good_fit_percentage |-> 0, score_statistics |-> <<>>,
     current_weights |-> NoSnapshot, error |-> FALSE]

\* the locals of a get_feedback_analytics call: `pc` names the query it makes
\* next, the other fields what its queries have returned so far
NoReading ==
    [pc |-> "total", inst |-> 0, total |-> 0, good_fit_count |-> 0,
     not_fit_count |-> 0, score_stats |-> <<>>]

\* what `call` records of an operation on instance i: the fields an operation
\* does not set keep these values
Call(op, i) ==
    [op |-> op, inst |-> i, result |-> "ok", fault |-> "none",
     arg |-> "",                  \* record_feedback: the feedback argument
     returned |-> "",             \* record_feedback: the id returned
     passes |-> 0,                \* calls of _adjust_weights_based_on_feedback
     pattern |-> 0,               \* the pattern the pass applied
     window |-> 0,                \* len(feedback_data) of the pass
     seen |-> <<>>,               \* the ids of feedback_data, in its order
     before |-> IF i \in Instances THEN fc[i] ELSE NewCollector,
     rows_before |-> Len(feedback),
     history_before |-> Len(weight_history),
     weights |-> NoSnapshot,      \* get_weights: the dict returned
     previous |-> NoSnap,         \* get_weights: snap[i] before the call
     similarity |-> [num |-> 0, den |-> 1],   \* compute_match: similarity_score
     scaled |-> [num |-> 0, den |-> 1],       \* compute_match: final_score_scaled
     match |-> NoMatch,           \* compute_match: the dict returned
     hiring |-> <<>>,             \* compute_match, batch: hiring_embedding
     candidate |-> <<>>,          \* compute_match: candidate_embedding
     screening |-> 0,             \* compute_match: screening_score
     error |-> "",                \* compute_match: the message of the error
     computed |-> FALSE,          \* compute_match: the cosine was computed
     candidates |-> <<>>,         \* batch_match_candidates: candidates
     rows |-> <<>>,               \* the list a batch or a read returned
     analytics |-> NoAnalytics]   \* get_feedback_analytics: the dict returned

InitOver(rows) ==
    /\ feedback = rows
    /\ weight_history = <<>>
    /\ fc = [i \in Instances |-> NewCollector]
    /\ matcher = NewMatcher
    /\ now = Len(rows)
    /\ call = [op |-> "init", inst |-> 0, result |-> "ok", fault |-> "none",
               arg |-> "", returned |-> "", passes |-> 0, pattern |-> 0,
               window |-> 0, seen |-> <<>>,
               before |-> NewCollector, rows_before |-> Len(rows),
               history_before |-> 0, weights |-> NoSnapshot,
               previous |-> NoSnap, similarity |-> [num |-> 0, den |-> 1],
               scaled |-> [num |-> 0, den |-> 1], match |-> NoMatch,
               hiring |-> <<>>, candidate |-> <<>>, screening |-> 0,
               error |-> "", computed |-> FALSE, candidates |-> <<>>,
               rows |-> <<>>, analytics |-> NoAnalytics]
    /\ snap = [i \in Instances |-> NoSnap]
    /\ budget = [records |-> 0, resets |-> 0, faults |-> 0, restarts |-> 0]
    /\ reading = NoReading

---------------------------------------------------------------------------
(* FeedbackCollector: the operations.                                      *)
(*                                                                         *)
(* `fault` names the storage call that fails in this operation:            *)
(*   "none"    no call fails;                                              *)
(*   "write"   record_feedback's INSERT INTO feedback (or its commit);      *)
(*   "count"   _get_feedback_count, which then returns 0;                  *)
(*   "recent"  _get_recent_feedback, which then returns [];                *)
(*   "compute" an exception while the pattern is computed (lines 203-215,  *)
(*             before any field is assigned);                              *)
(*   "hist"    _record_weight_adjustment's INSERT, which is then dropped.  *)
(* `dt` is the time in seconds since the last write.                       *)

\* (mutant) a pass that applies no pattern inserts no weight_history row
AdjustOutcomeSkippingNoRule(o, feedback_data, fault) ==
    IF feedback_data = <<>> \/ fault = "compute"
    THEN [o |-> o, pattern |-> 0, recorded |-> FALSE]
    ELSE LET p == Pattern(feedback_data)
             w == AdjustedWeights(Weights(o), p)
         IN  [o |-> [similarity_weight |-> w.similarity_weight,
                     screening_weight  |-> w.screening_weight,
                     den               |-> w.den,
                     confidence        |-> AdjustedConfidence(p, o.confidence)],
              pattern |-> p,
              recorded |-> fault # "hist" /\ p # 0]

\* _adjust_weights_based_on_feedback on object o: the object afterwards, the
\* pattern applied, and whether a weight_history row was inserted
AdjustOutcome(o, feedback_data, fault) ==
    IF feedback_data = <<>> \/ fault = "compute"
    THEN [o |-> o, pattern |-> 0, recorded |-> FALSE]
    ELSE LET p == Pattern(feedback_data)
             w == AdjustedWeights(Weights(o), p)
         IN  [o |-> [similarity_weight |-> w.similarity_weight,
                     screening_weight  |-> w.screening_weight,
                     den               |-> w.den,
                     confidence        |-> AdjustedConfidence(p, o.confidence)],
              pattern |-> p,
              recorded |-> fault # "hist"]

\* (mutant) _record_weight_adjustment keeps one row, the latest
RecordWeightAdjustmentReplacing(history, o, trigger, feedback_count, t) ==
    <<HistoryRow(1, o, trigger, feedback_count, t)>>

\* (mutant) _record_weight_adjustment inserts the row twice
RecordWeightAdjustmentTwice(history, o, trigger, feedback_count, t) ==
    history \o <<HistoryRow(Len(history) + 1, o, trigger, feedback_count, t),
                 HistoryRow(Len(history) + 2, o, trigger, feedback_count, t)>>

\* _record_weight_adjustment
RecordWeightAdjustment(history, o, trigger, feedback_count, t) ==
    Append(history, HistoryRow(Len(history) + 1, o, trigger, feedback_count, t))

\* whether the failing call named by `fault` is made when the pass runs
\* (adjusts) on the window feedback_data
FaultReached(fault, adjusts, feedback_data) ==
    CASE fault \in {"none", "count"} -> TRUE
      [] fault = "recent" -> adjusts
      [] fault \in {"compute", "hist"} -> adjusts /\ feedback_data # <<>>
      [] OTHER -> FALSE

\* (mutant) a failure of the adjustment reaches record_feedback's except block
RecordResultRaising(fault) == IF fault = "none" THEN "ok" ELSE "DatabaseError"

\* (mutant) a failure of the INSERT is logged and record_feedback returns
RecordResultSwallowing(fault) == "ok"

\* how record_feedback ends when the storage call named by `fault` fails: the
\* INSERT is inside record_feedback's try block, which raises DatabaseError;
\* every call of the adjustment is inside a try block that logs and goes on
RecordResult(fault) == IF fault = "write" THEN "DatabaseError" ELSE "ok"

\* record_feedback(candidate_id, hiring_manager_id, final_score, feedback,
\* notes) on instance i
RecordFeedback(i, candidate_id, hiring_manager_id, final_score, fb, notes, fault, dt) ==
    LET c0 == [Call("record_feedback", i) EXCEPT !.arg = fb]
    IN  /\ snap' = [snap EXCEPT ![i] = NoSnap]
        /\ UNCHANGED <<matcher, reading>>
        /\ budget' = [budget EXCEPT
                        !.records = IF ValidFeedback(fb) /\ fault # "write"
                                    THEN @ + 1 ELSE @,
                        !.faults = IF fault = "none" \/ ~ValidFeedback(fb)
                                   THEN @ ELSE @ + 1]
        /\ IF ~ValidFeedback(fb)
           THEN /\ fault = "none"
                /\ call' = [c0 EXCEPT !.result = "ValueError"]
                /\ UNCHANGED <<feedback, weight_history, fc, now>>
           ELSE IF fault = "write"
           THEN /\ call' = [c0 EXCEPT !.result = RecordResult(fault),
                                      !.fault = fault]
                /\ UNCHANGED <<feedback, weight_history, fc, now>>
           ELSE LET t == now + dt
                    feedback_id == Len(feedback) + 1
                    rows == Append(feedback,
                              FeedbackRow(feedback_id, candidate_id,
                                          hiring_manager_id, final_score, fb,
                                          notes, t))
                    feedback_count ==
                        IF fault = "count" THEN 0 ELSE FeedbackCount(rows)
                    adjusts == ShouldAdjust(feedback_count)
                IN  /\ feedback' = rows
                    /\ now' = t
                    /\ \E feedback_data \in
                            (IF ~adjusts \/ fault = "recent" THEN {<<>>}
                             ELSE RecentFeedback(rows, RecentLimit)) :
                         LET out == AdjustOutcome(fc[i], feedback_data, fault)
                         IN  /\ FaultReached(fault, adjusts, feedback_data)
                             /\ fc' = [fc EXCEPT ![i] = out.o]
                             /\ weight_history' =
                                  IF out.recorded
                                  THEN RecordWeightAdjustment(weight_history,
                                         out.o, trigger_action(out.pattern),
                                         Len(feedback_data), t)
                                  ELSE weight_history
                             /\ call' = [c0 EXCEPT
                                  !.fault = fault,
                                  !.result = RecordResult(fault),
                                  !.returned =
                                     IF RecordResult(fault) = "ok"
                                     THEN ToString(feedback_id) ELSE "",
                                  !.passes = IF adjusts THEN 1 ELSE 0,
                                  !.pattern = out.pattern,
                                  !.window = Len(feedback_data),
                                  !.seen = [k \in 1..Len(feedback_data) |->
                                              feedback_data[k].id]]

\* (mutant) reset_weights leaves self.confidence as it is
ResetKeepingConfidence(o) ==
    [o EXCEPT !.similarity_weight = DefaultSimilarity,
              !.screening_weight = DefaultScreening,
              !.den = DefaultDen]

\* reset_weights: the fields of object o after the three assignments
ResetCollector(o) ==
    [o EXCEPT !.similarity_weight = DefaultSimilarity,
              !.screening_weight = DefaultScreening,
              !.den = DefaultDen,
              !.confidence = DefaultConfidence]

\* (mutant) reset_weights assigns the fields of every instance
ResetWeightsShared(i, fault, dt) ==
    LET t == now + dt
        feedback_count == IF fault = "count" THEN 0 ELSE FeedbackCount(feedback)
    IN  /\ fault \in {"none", "count", "hist"}
        /\ fc' = [j \in Instances |-> ResetCollector(fc[j])]
        /\ weight_history' =
             IF fault = "hist" THEN weight_history
             ELSE RecordWeightAdjustment(weight_history,
                                         ResetCollector(fc[i]), ManualReset,
                                         feedback_count, t)
        /\ now' = t
        /\ call' = [Call("reset_weights", i) EXCEPT !.fault = fault]
        /\ snap' = [snap EXCEPT ![i].reset = TRUE]
        /\ budget' = [budget EXCEPT
                        !.resets = @ + 1,
                        !.faults = IF fault = "none" THEN @ ELSE @ + 1]
        /\ UNCHANGED <<feedback, matcher, reading>>

\* reset_weights() on instance i
ResetWeights(i, fault, dt) ==
    LET t == now + dt
        feedback_count == IF fault = "count" THEN 0 ELSE FeedbackCount(feedback)
    IN  /\ fault \in {"none", "count", "hist"}
        /\ fc' = [fc EXCEPT ![i] = ResetCollector(fc[i])]
        /\ weight_history' =
             IF fault = "hist" THEN weight_history
             ELSE RecordWeightAdjustment(weight_history,
                                         ResetCollector(fc[i]), ManualReset,
                                         feedback_count, t)
        /\ now' = t
        /\ call' = [Call("reset_weights", i) EXCEPT !.fault = fault]
        /\ snap' = [snap EXCEPT ![i].reset = TRUE]
        /\ budget' = [budget EXCEPT
                        !.resets = @ + 1,
                        !.faults = IF fault = "none" THEN @ ELSE @ + 1]
        /\ UNCHANGED <<feedback, matcher, reading>>

\* the dict get_weights returns for object o (updated_at, the wall clock of
\* the call, is left out)
WeightsSnapshot(o, total_feedback) ==
    [similarity_weight |-> Round3(o.similarity_weight, o.den),
     screening_weight  |-> Round3(o.screening_weight, o.den),
     confidence        |-> (1000 * o.confidence) \div ConfUnit,
     total_feedback    |-> total_feedback]

\* (mutant) get_weights runs the adjustment before it reads the fields
GetWeightsAdjusting(i, fault) ==
    LET rows == IF ShouldAdjust(FeedbackCount(feedback))
                THEN CHOOSE d \in RecentFeedback(feedback, RecentLimit) : TRUE
                ELSE <<>>
        o == AdjustOutcome(fc[i], rows, "none").o
        w == WeightsSnapshot(o,
               IF fault = "count" THEN 0 ELSE FeedbackCount(feedback))
    IN  /\ fault \in {"none", "count"}
        /\ call' = [Call("get_weights", i) EXCEPT
                      !.fault = fault, !.weights = w, !.previous = snap[i]]
        /\ snap' = [snap EXCEPT
                      ![i] = [valid |-> TRUE, weights |-> w, reset |-> FALSE]]
        /\ fc' = [fc EXCEPT ![i] = o]
        /\ budget' = [budget EXCEPT
                        !.faults = IF fault = "none" THEN @ ELSE @ + 1]
        /\ UNCHANGED <<feedback, weight_history, matcher, now, reading>>

\* get_weights() on instance i
GetWeights(i, fault) ==
    LET w == WeightsSnapshot(fc[i],
               IF fault = "count" THEN 0 ELSE FeedbackCount(feedback))
    IN  /\ fault \in {"none", "count"}
        /\ call' = [Call("get_weights", i) EXCEPT
                      !.fault = fault, !.weights = w, !.previous = snap[i]]
        /\ snap' = [snap EXCEPT
                      ![i] = [valid |-> TRUE, weights |-> w, reset |-> FALSE]]
        /\ budget' = [budget EXCEPT
                        !.faults = IF fault = "none" THEN @ ELSE @ + 1]
        /\ UNCHANGED <<feedback, weight_history, fc, matcher, now, reading>>

\* the dict get_weight_history builds of a weight_history row
HistoryEntry(row) ==
    [similarity_weight |-> row.similarity_weight,
     screening_weight |-> row.screening_weight, den |-> row.den,
     confidence |-> row.confidence, trigger_action |-> row.trigger_action,
     feedback_count |-> row.feedback_count, created_at |-> row.created_at]

\* the dict export_feedback_data builds of a feedback row
ExportEntry(row) ==
    [candidate_id |-> row.candidate_id,
     hiring_manager_id |-> row.hiring_manager_id,
     final_score |-> row.final_score, feedback |-> row.feedback,
     notes |-> row.notes, created_at |-> row.created_at]

\* SELECT ... FROM weight_history ORDER BY created_at DESC LIMIT limit: every
\* result the query may give, as the dicts get_weight_history returns
WeightHistory(rows, limit) ==
    {[k \in 1..Len(h) |-> HistoryEntry(h[k])] :
        h \in RecentFeedback(rows, limit)}

\* SELECT ... FROM feedback ORDER BY created_at DESC, as the dicts
\* export_feedback_data returns
ExportedFeedback(rows) ==
    LET d == RowsDesc(rows, 1..Len(rows))
    IN  [k \in 1..Len(d) |-> ExportEntry(d[k])]

\* one row of SELECT feedback, AVG(final_score), COUNT(*) ... GROUP BY
\* feedback, as the dict of score_statistics: avg_score in hundredths
ScoreStatistic(fb, rows) ==
    [feedback |-> fb, avg_score |-> RoundDiv(10 * SumScores(rows), Len(rows)),
     count |-> Len(rows)]

\* score_statistics: one dict per feedback value in the table, in the order
\* of the values
ScoreStatistics(rows) ==
    (IF good_fits(rows) = <<>> THEN <<>>
     ELSE <<ScoreStatistic(GoodFit, good_fits(rows))>>) \o
    (IF not_fits(rows) = <<>> THEN <<>>
     ELSE <<ScoreStatistic(NotAFit, not_fits(rows))>>)

\* (mutant) the payload of a failed read reports the rows of the table
FeedbackAnalyticsCountingOnError(rows, current_weights, failed) ==
    [total_feedback |-> Len(rows),
     good_fit_count |-> Len(good_fits(rows)),
     not_fit_count |-> Len(not_fits(rows)),
     good_fit_percentage |->
        IF Len(rows) > 0
        THEN RoundDiv(1000 * Len(good_fits(rows)), Len(rows)) ELSE 0,
     score_statistics |-> ScoreStatistics(rows),
     current_weights |-> current_weights,
     error |-> failed]

\* the dict get_feedback_analytics builds of what its three queries and its
\* get_weights call returned, good_fit_percentage in tenths of a percent
AnalyticsPayload(total, good_fit_count, not_fit_count, score_stats, current_weights) ==
    [total_feedback |-> total,
     good_fit_count |-> good_fit_count,
     not_fit_count |-> not_fit_count,
     good_fit_percentage |->
        IF total > 0 THEN RoundDiv(1000 * good_fit_count, total) ELSE 0,
     score_statistics |-> score_stats,
     current_weights |-> current_weights,
     error |-> FALSE]

\* the dict get_feedback_analytics returns when its queries all read the rows
\* `rows` of table feedback; `failed`: one of the queries raised, and the
\* except block returns total_feedback 0 and the error
FeedbackAnalytics(rows, current_weights, failed) ==
    IF failed
    THEN [total_feedback |-> 0, good_fit_count |-> 0, not_fit_count |-> 0,
          good_fit_percentage |-> 0, score_statistics |-> <<>>,
          current_weights |-> NoSnapshot, error |-> TRUE]
    ELSE AnalyticsPayload(Len(rows), Len(good_fits(rows)),
                          Len(not_fits(rows)), ScoreStatistics(rows),
                          current_weights)

\* get_weight_history(limit) on instance i; `failed`: the query raised
GetWeightHistory(i, limit, failed) ==
    /\ \E h \in (IF failed THEN {<<>>}
                 ELSE WeightHistory(weight_history, limit)) :
         call' = [Call("get_weight_history", i) EXCEPT
                    !.fault = IF failed THEN "history" ELSE "none",
                    !.rows = h]
    /\ UNCHANGED <<feedback, weight_history, fc, matcher, now, snap, budget, reading>>

\* export_feedback_data() on instance i; `failed`: the query raised
ExportFeedbackData(i, failed) ==
    /\ call' = [Call("export_feedback_data", i) EXCEPT
                  !.fault = IF failed THEN "export" ELSE "none",
                  !.rows = IF failed THEN <<>>
                           ELSE ExportedFeedback(feedback)]
    /\ UNCHANGED <<feedback, weight_history, fc, matcher, now, snap, budget, reading>>

\* (mutant) get_feedback_analytics resets the fields it reports
GetFeedbackAnalyticsResetting(i, fault) ==
    /\ fault \in {"none", "analytics", "count"}
    /\ call' = [Call("get_feedback_analytics", i) EXCEPT
                  !.fault = fault,
                  !.analytics =
                     FeedbackAnalytics(feedback,
                        WeightsSnapshot(ResetCollector(fc[i]),
                           IF fault = "count" THEN 0
                           ELSE FeedbackCount(feedback)),
                        fault = "analytics")]
    /\ fc' = [fc EXCEPT ![i] = ResetCollector(fc[i])]
    /\ UNCHANGED <<feedback, weight_history, matcher, now, snap, budget, reading>>

\* get_feedback_analytics() on instance i. fault "analytics": one of its own
\* queries raised; fault "count": they succeeded and the _get_feedback_count
\* of its get_weights call failed
GetFeedbackAnalytics(i, fault) ==
    /\ fault \in {"none", "analytics", "count"}
    /\ call' = [Call("get_feedback_analytics", i) EXCEPT
                  !.fault = fault,
                  !.analytics =
                     FeedbackAnalytics(feedback,
                        WeightsSnapshot(fc[i],
                           IF fault = "count" THEN 0
                           ELSE FeedbackCount(feedback)),
                        fault = "analytics")]
    /\ UNCHANGED <<feedback, weight_history, fc, matcher, now, snap, budget, reading>>

\* get_feedback_analytics() on instance i, one storage read at a time: its
\* three SELECT statements run in autocommit mode on one connection and the
\* count of its get_weights call on another, so that each reads the rows
\* committed when it runs. First, SELECT COUNT(*) FROM feedback
AnalyticsTotal(i) ==
    /\ reading.pc = "total"
    /\ reading' = [NoReading EXCEPT !.pc = "counts", !.inst = i,
                                    !.total = Len(feedback)]
    /\ UNCHANGED <<feedback, weight_history, fc, matcher, now, call, snap, budget>>

\* then SELECT feedback, COUNT(*) FROM feedback GROUP BY feedback
AnalyticsCounts(i) ==
    /\ reading.pc = "counts" /\ reading.inst = i
    /\ reading' = [reading EXCEPT !.pc = "stats",
                                  !.good_fit_count = Len(good_fits(feedback)),
                                  !.not_fit_count = Len(not_fits(feedback))]
    /\ UNCHANGED <<feedback, weight_history, fc, matcher, now, call, snap, budget>>

\* then SELECT feedback, AVG(final_score), COUNT(*) ... GROUP BY feedback
AnalyticsStats(i) ==
    /\ reading.pc = "stats" /\ reading.inst = i
    /\ reading' = [reading EXCEPT !.pc = "weights",
                                  !.score_stats = ScoreStatistics(feedback)]
    /\ UNCHANGED <<feedback, weight_history, fc, matcher, now, call, snap, budget>>

\* then the dict is built, with self.get_weights() as current_weights, and
\* returned
AnalyticsReturn(i) ==
    /\ reading.pc = "weights" /\ reading.inst = i
    /\ call' = [Call("get_feedback_analytics", i) EXCEPT
                  !.analytics =
                     AnalyticsPayload(reading.total, reading.good_fit_count,
                        reading.not_fit_count, reading.score_stats,
                        WeightsSnapshot(fc[i], FeedbackCount(feedback)))]
    /\ reading' = NoReading
    /\ UNCHANGED <<feedback, weight_history, fc, matcher, now, snap, budget>>

\* (mutant) a new instance takes its fields from the latest weight_history row
ConstructFromHistory(i) ==
    /\ fc' = [fc EXCEPT ![i] =
                IF weight_history = <<>> THEN NewCollector
                ELSE LET h == weight_history[Len(weight_history)]
                     IN  [similarity_weight |-> h.similarity_weight,
                          screening_weight |-> h.screening_weight,
                          den |-> h.den, confidence |-> h.confidence]]
    /\ call' = Call("init", i)
    /\ snap' = [snap EXCEPT ![i] = NoSnap]
    /\ budget' = [budget EXCEPT !.restarts = @ + 1]
    /\ UNCHANGED <<feedback, weight_history, matcher, now, reading>>

\* FeedbackCollector(db_path) constructed as instance i over the database as
\* it is: init_database creates the tables only if they do not exist
Construct(i) ==
    /\ fc' = [fc EXCEPT ![i] = NewCollector]
    /\ call' = Call("init", i)
    /\ snap' = [snap EXCEPT ![i] = NoSnap]
    /\ budget' = [budget EXCEPT !.restarts = @ + 1]
    /\ UNCHANGED <<feedback, weight_history, matcher, now, reading>>

---------------------------------------------------------------------------
(* CandidateJobMatcher: the operations.                                    *)

\* compute_match(hiring_embedding, candidate_embedding, screening_score), the
\* score in hundredths
ComputeMatch(hiring_embedding, candidate_embedding, screening_score) ==
    LET c0 == [Call("compute_match", 0) EXCEPT
                 !.hiring = hiring_embedding,
                 !.candidate = candidate_embedding,
                 !.screening = screening_score]
        err == MatchError(hiring_embedding, candidate_embedding,
                          screening_score)
    IN  /\ IF err # ""
           THEN call' = [c0 EXCEPT !.result = "ValueError", !.error = err]
           ELSE LET sim == NormalizedSimilarity(hiring_embedding,
                                                candidate_embedding)
                IN  call' = [c0 EXCEPT
                       !.computed = TRUE,
                       !.similarity = sim,
                       !.scaled = FinalScoreScaled(matcher, sim,
                                                   screening_score),
                       !.match = MatchResult(matcher, sim, screening_score)]
        /\ UNCHANGED <<feedback, weight_history, fc, matcher, now, snap,
                       budget, reading>>

\* batch_match_candidates(hiring_embedding, candidates), a candidate being
\* [id, embedding, screening_score]
BatchMatchCandidates(hiring_embedding, candidates) ==
    /\ call' = [Call("batch_match_candidates", 0) EXCEPT
                  !.hiring = hiring_embedding,
                  !.candidates = candidates,
                  !.rows = SortDescending(
                             CandidateResults(matcher, hiring_embedding,
                                              candidates))]
    /\ UNCHANGED <<feedback, weight_history, fc, matcher, now, snap, budget, reading>>

---------------------------------------------------------------------------
(* Inputs and specifications.                                              *)

\* the feedback values tried: the two accepted literals and one other
FeedbackValues == {GoodFit, NotAFit, "Maybe"}
\* the final scores tried, in tenths: 3.0 and 9.0
FinalScores == {30, 90}
\* the embeddings and screening scores (in hundredths) tried in Spec
HiringEmbeddings == {<<1, 0>>}
CandidateEmbeddings == {<<3, 4>>, <<1, 0>>, <<>>}
ScreeningScores == {799, 1001}

\* the feedback table that holds the entries es (pairs of a feedback value and
\* a final score), recorded one second apart
Store(es) ==
    [k \in 1..Len(es) |->
        FeedbackRow(k, "c1", "hm1", es[k][2], es[k][1], "", k)]

\* the feedback tables a collector of Spec is constructed over: the database
\* file outlives the process, so the table may hold rows already
InitStores ==
    {Store(<<>>),
     Store(<<<<GoodFit, 30>>, <<GoodFit, 30>>, <<GoodFit, 30>>>>),
     Store(<<<<GoodFit, 30>>, <<GoodFit, 30>>, <<GoodFit, 30>>,
             <<GoodFit, 30>>>>),
     Store(<<<<GoodFit, 90>>, <<GoodFit, 90>>, <<GoodFit, 90>>,
             <<GoodFit, 90>>>>),
     Store(<<<<GoodFit, 90>>, <<GoodFit, 30>>, <<NotAFit, 30>>,
             <<NotAFit, 30>>>>)}

\* the feedback table a collector of SpecDeep is constructed over
DeepStore ==
    Store(<<<<NotAFit, 90>>, <<GoodFit, 90>>, <<GoodFit, 90>>,
            <<GoodFit, 90>>>>)

Init == \E rows \in InitStores : InitOver(rows)

\* record_feedback on instance 1, storage working
Record ==
    \E fb \in FeedbackValues, final_score \in FinalScores :
        /\ budget.records < MaxRecords
        /\ fc[1].den <= MaxDen
        /\ RecordFeedback(1, "c1", "hm1", final_score, fb, "", "none", 1)

\* reset_weights on instance 1, storage working
Reset ==
    /\ budget.resets < MaxResets
    /\ ResetWeights(1, "none", 1)

\* get_weights on instance 1, storage working
Read == GetWeights(1, "none")

\* compute_match
Match ==
    \E h \in HiringEmbeddings, c \in CandidateEmbeddings,
       s \in ScreeningScores : ComputeMatch(h, c, s)

Next == Record \/ Reset \/ Read \/ Match

Spec == Init /\ [][Next]_vars

\* SpecFaults: Spec's collector with at most MaxFaults failing storage calls
Faults == {"write", "count", "recent", "compute", "hist"}

RecordFault ==
    \E fb \in {GoodFit, NotAFit}, final_score \in FinalScores,
       fault \in Faults :
        /\ budget.records < MaxRecords
        /\ budget.faults < MaxFaults
        /\ fc[1].den <= MaxDen
        /\ RecordFeedback(1, "c1", "hm1", final_score, fb, "", fault, 1)

ResetFault ==
    \E fault \in {"count", "hist"} :
        /\ budget.resets < MaxResets
        /\ budget.faults < MaxFaults
        /\ ResetWeights(1, fault, 1)

ReadFault ==
    /\ budget.faults < MaxFaults
    /\ GetWeights(1, "count")

\* (a get_weights whose count succeeds writes nothing and is left to Spec)
NextFaults == Record \/ Reset \/ RecordFault \/ ResetFault \/ ReadFault

SpecFaults == Init /\ [][NextFaults]_vars

\* SpecDeep: long runs of accepted and rejected high scores, which take the
\* weights to the clamp bounds
InitDeep == InitOver(DeepStore)

RecordDeep ==
    \E fb \in {GoodFit, NotAFit} :
        /\ budget.records < MaxDeep
        /\ fc[1].den <= MaxDen
        /\ RecordFeedback(1, "c1", "hm1", 90, fb, "", "none", 1)

NextDeep == RecordDeep \/ Reset

SpecDeep == InitDeep /\ [][NextDeep]_vars

\* SpecOps: every operation of the collector and compute_match, on instance
\* 1; the writes succeed, the reads may fail
HistoryLimits == {1, 20}

History ==
    \E limit \in HistoryLimits, failed \in BOOLEAN :
        GetWeightHistory(1, limit, failed)

Export == \E failed \in BOOLEAN : ExportFeedbackData(1, failed)

Analytics == GetFeedbackAnalytics(1, "none")

AnalyticsFault ==
    \E fault \in {"analytics", "count"} : GetFeedbackAnalytics(1, fault)

NextOps ==
    \/ Record \/ Reset \/ Read \/ Match
    \/ History \/ Export \/ Analytics \/ AnalyticsFault

\* the feedback tables a collector of SpecOps is constructed over
OpsStores ==
    {Store(<<>>),
     Store(<<<<GoodFit, 90>>, <<GoodFit, 30>>, <<NotAFit, 30>>,
             <<NotAFit, 30>>>>)}

InitOps == \E rows \in OpsStores : InitOver(rows)

SpecOps == InitOps /\ [][NextOps]_vars

\* SpecTwo: two collectors, one per process, over one database file
TwoStores ==
    {Store(<<<<GoodFit, 90>>, <<GoodFit, 30>>, <<GoodFit, 30>>,
             <<GoodFit, 30>>>>)}

InitTwo == \E rows \in TwoStores : InitOver(rows)

RecordOn ==
    \E i \in Instances, fb \in {GoodFit, NotAFit} :
        /\ budget.records < MaxRecords
        /\ fc[i].den <= MaxDen
        /\ RecordFeedback(i, "c1", "hm1", 90, fb, "", "none", 1)

ResetOn ==
    \E i \in Instances :
        /\ budget.resets < MaxResets
        /\ ResetWeights(i, "none", 1)

ReadOn == \E i \in Instances : GetWeights(i, "none")

NextTwo == RecordOn \/ ResetOn \/ ReadOn

SpecTwo == InitTwo /\ [][NextTwo]_vars

\* SpecScenario: a collector over an empty database, fed high and low scores,
\* accepted and rejected
InitScenario == InitOver(<<>>)

RecordScenario ==
    \E fb \in {GoodFit, NotAFit}, final_score \in FinalScores :
        /\ budget.records < MaxScenario
        /\ fc[1].den <= MaxDen
        /\ RecordFeedback(1, "c1", "hm1", final_score, fb, "", "none", 1)

NextScenario == RecordScenario

SpecScenario == InitScenario /\ [][NextScenario]_vars

\* SpecMatch: the matcher alone, on embeddings that are empty, of another
\* length, parallel, orthogonal and opposite, and on scores in and out of range
MatchHiringEmbeddings == {<<1, 0>>, <<>>, <<1, 0, 0>>}
MatchCandidateEmbeddings ==
    {<<1, 0>>, <<4, 3>>, <<3, 4>>, <<0, 1>>, <<-1, 0>>, <<>>, <<1, 0, 0>>}
MatchScreeningScores == {-1, 0, 799, 800, 1000, 1001}

\* the candidates of a batch
BatchCandidates ==
    {[id |-> "a", embedding |-> <<1, 0>>, screening_score |-> 800],
     [id |-> "b", embedding |-> <<>>, screening_score |-> 800],
     [id |-> "c", embedding |-> <<3, 4>>, screening_score |-> 500],
     [id |-> "d", embedding |-> <<0, 1>>, screening_score |-> 1001]}

InitMatch == InitOver(<<>>)

MatchOne ==
    \E h \in MatchHiringEmbeddings, c \in MatchCandidateEmbeddings,
       x \in MatchScreeningScores : ComputeMatch(h, c, x)

MatchBatch ==
    \E n \in 0..MaxBatch :
        \E candidates \in [1..n -> BatchCandidates] :
            BatchMatchCandidates(<<1, 0>>, candidates)

NextMatch == MatchOne \/ MatchBatch

SpecMatch == InitMatch /\ [][NextMatch]_vars

\* SpecReinforce: a collector over four accepted high scores, fed high and low
\* scores, accepted and rejected: passes that reinforce, up to the cap of the
\* confidence
ReinforceStore ==
    Store(<<<<GoodFit, 90>>, <<GoodFit, 90>>, <<GoodFit, 90>>,
            <<GoodFit, 90>>>>)

InitReinforce == InitOver(ReinforceStore)

RecordReinforce ==
    \E fb \in {GoodFit, NotAFit}, final_score \in FinalScores :
        /\ budget.records < MaxReinforce
        /\ fc[1].den <= MaxDen
        /\ RecordFeedback(1, "c1", "hm1", final_score, fb, "", "none", 1)

NextReinforce == RecordReinforce

SpecReinforce == InitReinforce /\ [][NextReinforce]_vars

\* SpecBurst: entries recorded within one second (created_at has the
\* resolution of CURRENT_TIMESTAMP, one second) or a second apart, over a
\* table of four entries of one second
BurstStore ==
    [k \in 1..4 |-> FeedbackRow(k, "c1", "hm1", 90, NotAFit, "", 4)]

InitBurst == InitOver(BurstStore)

RecordBurst ==
    \E dt \in {0, 1} :
        /\ budget.records < MaxBurst
        /\ fc[1].den <= MaxDen
        /\ RecordFeedback(1, "c1", "hm1", 90, NotAFit, "", "none", dt)

NextBurst == RecordBurst

SpecBurst == InitBurst /\ [][NextBurst]_vars

\* SpecRestart: the process is restarted: a new FeedbackCollector is
\* constructed over the database the earlier one has written
RestartStores == {Store(<<>>), DeepStore}

InitRestart == \E rows \in RestartStores : InitOver(rows)

RecordRestart ==
    \E fb \in {GoodFit, NotAFit}, final_score \in FinalScores :
        /\ budget.records < MaxRestartRecords
        /\ fc[1].den <= MaxDen
        /\ RecordFeedback(1, "c1", "hm1", final_score, fb, "", "none", 1)

Restart ==
    /\ budget.restarts < MaxRestarts
    /\ Construct(1)

NextRestart == RecordRestart \/ Restart

SpecRestart == InitRestart /\ [][NextRestart]_vars

\* SpecRace: instance 1 serves get_feedback_analytics, one storage read at a
\* time, while instance 2 (another process on the same database file) records
\* feedback
RaceStores ==
    {Store(<<>>),
     Store(<<<<GoodFit, 90>>, <<GoodFit, 30>>, <<NotAFit, 30>>,
             <<NotAFit, 30>>>>)}

InitRace == \E rows \in RaceStores : InitOver(rows)

ReadTotal == AnalyticsTotal(1)
ReadCounts == AnalyticsCounts(1)
ReadStats == AnalyticsStats(1)
ReturnAnalytics == AnalyticsReturn(1)

RecordOther ==
    \E fb \in {GoodFit, NotAFit}, final_score \in FinalScores :
        /\ budget.records < MaxRace
        /\ fc[2].den <= MaxDen
        /\ RecordFeedback(2, "c1", "hm1", final_score, fb, "", "none", 1)

NextRace ==
    ReadTotal \/ ReadCounts \/ ReadStats \/ ReturnAnalytics \/ RecordOther

SpecRace == InitRace /\ [][NextRace]_vars

---------------------------------------------------------------------------
(* The claims.                                                             *)

\* the last row of weight_history was written by a pass that changed the
\* weights (Spec: one instance, storage working, history empty at the start)
LastPassChangedWeights ==
    LET n == Len(weight_history)
    IN  /\ n > 0
        /\ weight_history[n].trigger_action # "Manual reset to defaults"
        /\ Weights(weight_history[n]) #
             (IF n > 1 THEN Weights(weight_history[n - 1])
              ELSE [similarity_weight |-> 3, screening_weight |-> 2,
                    den |-> 5])

\* C1: whenever an adjustment pass run by record_feedback has changed the
\* collector's weights, the next compute_match computes final_score with the
\* new weights. (Stated for weights whose denominator is at most 1000, which
\* keeps the products within 32 bits.)
C1_MatchUsesAdjustedWeights ==
    (/\ call.op = "compute_match"
     /\ call.result = "ok"
     /\ LastPassChangedWeights
     /\ fc[1].den <= 1000)
    => call.match.final_score =
         MatchResult(Weights(fc[1]), call.similarity,
                     call.match.screening_score).final_score

\* C2: in every reachable state similarity_weight + screening_weight = 1, also
\* after a pass that clamped a weight before it re-normalised.
C2_WeightsSumToOne ==
    \A i \in Instances :
        fc[i].similarity_weight + fc[i].screening_weight = fc[i].den

\* the weights of the last pass after the delta, and after the clamp
LastShifted ==
    Shifted(Weights(call.before), delta_similarity(call.pattern),
            delta_screening(call.pattern))
LastClamped == Clamped(LastShifted)

\* a pass has just clamped the screening weight alone, so the clamped weights
\* did not sum to 1
C2_ClampedOneWeight ==
    /\ call.op = "record_feedback"
    /\ call.passes = 1
    /\ call.pattern \in {1, 2, 3}
    /\ LastClamped.screening_weight # LastShifted.screening_weight
    /\ LastClamped.similarity_weight + LastClamped.screening_weight
         # LastClamped.den

\* C3: in every reachable state similarity_weight is in [0.3, 0.8] and
\* screening_weight is in [0.2, 0.7].
C3_WeightsWithinClamp ==
    \A i \in Instances :
        /\ 3 * fc[i].den <= 10 * fc[i].similarity_weight
        /\ 10 * fc[i].similarity_weight <= 8 * fc[i].den
        /\ 2 * fc[i].den <= 10 * fc[i].screening_weight
        /\ 10 * fc[i].screening_weight <= 7 * fc[i].den

\* a pass has just clamped the similarity weight
C3_ClampedSimilarity ==
    /\ call.op = "record_feedback"
    /\ call.passes = 1
    /\ call.pattern \in {1, 2, 3}
    /\ LastClamped.similarity_weight # LastShifted.similarity_weight

\* C4: after a successful record_feedback that leaves n rows in the table: if
\* n >= 5 the call ran exactly one adjustment pass (one weight_history row
\* more), and if n < 5 it ran none: weights, confidence and weight_history are
\* as before the call.
C4_PassOnEveryRecordFromThreshold ==
    (call.op = "record_feedback" /\ call.result = "ok")
    => IF Len(feedback) >= 5
       THEN /\ call.passes = 1
            /\ Len(weight_history) = call.history_before + 1
       ELSE /\ call.passes = 0
            /\ fc[call.inst] = call.before
            /\ Len(weight_history) = call.history_before

\* a record_feedback after the one that reached the threshold ran a pass again
C4_PassAgainAfterThreshold ==
    /\ call.op = "record_feedback"
    /\ call.result = "ok"
    /\ Len(feedback) > 5
    /\ call.passes = 1
    /\ call.history_before >= 1

\* C5: a record_feedback whose feedback value is neither "Good Fit" nor
\* "Not a Fit" ends in the validation error, runs no pass, and leaves the
\* feedback table, weight_history and the instance's fields as they were.
C5_InvalidFeedbackChangesNothing ==
    [][(call'.op = "record_feedback"
          /\ call'.arg \notin {"Good Fit", "Not a Fit"})
       => /\ call'.result = "ValueError"
          /\ call'.passes = 0
          /\ call'.returned = ""
          /\ UNCHANGED <<feedback, weight_history, fc>>]_vars

\* record_feedback has just rejected the value "Maybe"
C5_Rejected ==
    /\ call.op = "record_feedback"
    /\ call.arg = "Maybe"
    /\ call.result = "ValueError"

\* C6: when a step of the adjustment fails (the count, the window, the
\* computation or the history write), record_feedback still returns the id of
\* the row it wrote, and the row is in the table.
C6_AdjustmentFailureKeepsRecord ==
    (call.op = "record_feedback"
       /\ call.fault \in {"count", "recent", "compute", "hist"})
    => /\ call.result = "ok"
       /\ Len(feedback) = call.rows_before + 1
       /\ feedback[Len(feedback)].feedback = call.arg
       /\ call.returned = ToString(feedback[Len(feedback)].id)

\* the history write of a pass has just failed
C6_HistoryWriteFailed ==
    /\ call.op = "record_feedback"
    /\ call.fault = "hist"
    /\ call.passes = 1
    /\ Len(weight_history) = call.history_before

\* C7: when the INSERT of the feedback row fails, record_feedback ends in the
\* storage error, runs no pass, and leaves the feedback table, weight_history
\* and the instance's fields as they were.
C7_WriteFailureRaises ==
    [][(call'.op = "record_feedback" /\ call'.fault = "write")
       => /\ call'.result = "DatabaseError"
          /\ call'.passes = 0
          /\ call'.returned = ""
          /\ UNCHANGED <<feedback, weight_history, fc>>]_vars

\* the INSERT of a feedback row has just failed
C7_WriteFailed ==
    /\ call.op = "record_feedback"
    /\ call.fault = "write"
    /\ call.result = "DatabaseError"

\* C8: reset_weights leaves the instance at 0.6 / 0.4 / 0.5 and appends exactly
\* one weight_history row, with the manual-reset trigger and those values.
C8_ResetRestoresDefaults ==
    [][call'.op = "reset_weights"
       => /\ fc'[call'.inst] =
               [similarity_weight |-> 3, screening_weight |-> 2, den |-> 5,
                confidence |-> 10]
          /\ Len(weight_history') = Len(weight_history) + 1
          /\ SubSeq(weight_history', 1, Len(weight_history)) = weight_history
          /\ LET r == weight_history'[Len(weight_history')]
             IN  /\ r.trigger_action = "Manual reset to defaults"
                 /\ r.similarity_weight = 3
                 /\ r.screening_weight = 2
                 /\ r.den = 5
                 /\ r.confidence = 10]_vars

\* reset_weights has just run on adjusted weights and an adjusted confidence
C8_ResetAfterAdjustment ==
    /\ call.op = "reset_weights"
    /\ Weights(call.before) #
         [similarity_weight |-> 3, screening_weight |-> 2, den |-> 5]
    /\ call.history_before >= 1

SameWeights(a, b) ==
    /\ a.similarity_weight = b.similarity_weight
    /\ a.screening_weight = b.screening_weight
    /\ a.confidence = b.confidence

\* C9 as stated: two get_weights calls with no record_feedback call between
\* them return the same similarity_weight, screening_weight and confidence.
C9_SameWithoutRecord ==
    (call.op = "get_weights" /\ call.previous.valid)
    => SameWeights(call.weights, call.previous.weights)

\* C9 as amended: two get_weights calls with neither a record_feedback nor a
\* reset_weights call between them return the same similarity_weight,
\* screening_weight and confidence.
C9_SameWithoutRecordOrReset ==
    (call.op = "get_weights" /\ call.previous.valid /\ ~call.previous.reset)
    => SameWeights(call.weights, call.previous.weights)

\* get_weights has just read adjusted weights for the second time
C9_SecondRead ==
    /\ call.op = "get_weights"
    /\ call.previous.valid
    /\ ~call.previous.reset
    /\ call.weights.similarity_weight # 600

\* the tier of a returned final_score, in hundredths
TierOfReturned(final_score) ==
    IF final_score >= 800 THEN "STRONG MATCH"
    ELSE IF final_score >= 700 THEN "GOOD MATCH"
    ELSE IF final_score >= 600 THEN "MODERATE MATCH"
    ELSE IF final_score >= 500 THEN "WEAK MATCH"
    ELSE "POOR MATCH"

\* the tier a recommendation text names
TierOfText(recommendation) ==
    CASE recommendation = StrongMatch -> "STRONG MATCH"
      [] recommendation = GoodMatch -> "GOOD MATCH"
      [] recommendation = ModerateMatch -> "MODERATE MATCH"
      [] recommendation = WeakMatch -> "WEAK MATCH"
      [] OTHER -> "POOR MATCH"

\* C10: the recommendation of every result of compute_match is the tier of
\* the final_score the result reports.
C10_TierOfReturnedScore ==
    (call.op = "compute_match" /\ call.result = "ok")
    => TierOfText(call.match.recommendation)
         = TierOfReturned(call.match.final_score)

\* a and b as fractions: a <= b
FractionLeq(a, b) == a.num * b.den <= b.num * a.den

\* the similarities and the screening scores (hundredths) C11 compares with
SimilarityGrid == {[num |-> k, den |-> 20] : k \in 0..20}
ScreeningGrid == {0, 1, 250, 499, 500, 799, 800, 999, 1000}

\* the weights C11 is checked for: the matcher's, and weights the adjustment
\* reaches
FixedWeights ==
    {Weights(matcher),
     [similarity_weight |-> 47, screening_weight |-> 34, den |-> 81],
     [similarity_weight |-> 11, screening_weight |-> 9, den |-> 20],
     [similarity_weight |-> 3, screening_weight |-> 7, den |-> 10]}

\* C11: with the weights fixed, the final_score compute_match returns does not
\* decrease when the similarity grows and the screening score stays, nor when
\* the screening score grows and the similarity stays; the rounding to two
\* decimals included.
C11_FinalScoreMonotone ==
    (call.op = "compute_match" /\ call.result = "ok")
    => \A w \in FixedWeights :
         LET f == MatchResult(w, call.similarity, call.screening).final_score
         IN  /\ w = Weights(matcher) => f = call.match.final_score
             /\ \A s2 \in SimilarityGrid :
                  /\ FractionLeq(call.similarity, s2) =>
                       f <= MatchResult(w, s2, call.screening).final_score
                  /\ FractionLeq(s2, call.similarity) =>
                       MatchResult(w, s2, call.screening).final_score <= f
             /\ \A x2 \in ScreeningGrid :
                  /\ call.screening <= x2 =>
                       f <= MatchResult(w, call.similarity, x2).final_score
                  /\ x2 <= call.screening =>
                       MatchResult(w, call.similarity, x2).final_score <= f

\* compute_match has returned a score that rounding took up to a threshold
C11_RoundedUp ==
    /\ call.op = "compute_match"
    /\ call.result = "ok"
    /\ 10 * call.similarity.num = 8 * call.similarity.den
    /\ call.screening = 799
    /\ call.match.final_score = 800

\* C12: compute_match ends in a ValueError, with no cosine computed and no
\* result, when an embedding is empty or the two differ in length, and in a
\* ValueError with no result when screening_score is outside [0, 10].
C12_InputErrors ==
    call.op = "compute_match"
    => /\ (call.hiring = <<>> \/ call.candidate = <<>>
            \/ Len(call.hiring) # Len(call.candidate))
          => /\ call.result = "ValueError"
             /\ ~call.computed
             /\ call.match = NoMatch
       /\ (call.screening < 0 \/ call.screening > 1000)
          => /\ call.result = "ValueError"
             /\ call.match = NoMatch
       /\ call.result = "ValueError" => call.error # ""

\* compute_match has refused two embeddings of different lengths whose
\* screening score is in range
C12_LengthsDiffer ==
    /\ call.op = "compute_match"
    /\ call.hiring # <<>>
    /\ call.candidate # <<>>
    /\ Len(call.hiring) # Len(call.candidate)
    /\ call.screening \in 0..1000
    /\ call.result = "ValueError"

\* C13: the final_score compute_match returns is
\* (similarity_weight * similarity + screening_weight * screening_score / 10)
\* * 10 rounded to two decimals, and lies in [0, 10]; with the weights 0.6 and
\* 0.4, similarity 0.9 and screening_score 8 it is 8.6, a STRONG MATCH.
C13_FinalScoreFormula ==
    (call.op = "compute_match" /\ call.result = "ok")
    => LET sim == call.similarity
           \* the formula over the denominator 100 * d, in hundredths
           n == 1000 * matcher.similarity_weight * sim.num
                  + matcher.screening_weight * call.screening * sim.den
           d == matcher.den * sim.den
           f == call.match.final_score
       IN  /\ 2 * (f * d - n) <= d
           /\ 2 * (n - f * d) <= d
           /\ 0 <= f /\ f <= 1000
           /\ (/\ Weights(matcher) = [similarity_weight |-> 3,
                                      screening_weight |-> 2, den |-> 5]
               /\ 10 * sim.num = 9 * sim.den
               /\ call.screening = 800)
              => /\ f = 860
                 /\ call.match.recommendation = StrongMatch

\* compute_match has scored similarity 0.9 and screening_score 8
C13_Scenario ==
    /\ call.op = "compute_match"
    /\ call.result = "ok"
    /\ 10 * call.similarity.num = 9 * call.similarity.den
    /\ call.screening = 800
    /\ call.match.final_score = 860

\* the candidates of the last batch whose compute_match fails
FailingCandidates ==
    {k \in 1..Len(call.candidates) :
        \/ call.hiring = <<>>
        \/ call.candidates[k].embedding = <<>>
        \/ Len(call.candidates[k].embedding) # Len(call.hiring)
        \/ call.candidates[k].screening_score < 0
        \/ call.candidates[k].screening_score > 1000}

\* C14: batch_match_candidates returns one result per candidate, in descending
\* order of final_score; a candidate whose compute_match fails gets a result
\* with final_score -1 and an error, the others theirs, and every such
\* sentinel comes after every other result.
C14_BatchSortedWithSentinels ==
    call.op = "batch_match_candidates"
    => LET r == call.rows
           n == Len(call.candidates)
       IN  /\ Len(r) = n
           /\ \A j \in 1..n : \A k \in 1..n :
                 j < k => r[j].final_score >= r[k].final_score
           /\ \A id \in {call.candidates[k].id : k \in 1..n} :
                 /\ Cardinality({k \in 1..n : call.candidates[k].id = id})
                      = Cardinality({j \in 1..n : r[j].candidate_id = id})
                 /\ Cardinality({k \in FailingCandidates :
                                   call.candidates[k].id = id})
                      = Cardinality({j \in 1..n :
                                       /\ r[j].candidate_id = id
                                       /\ r[j].final_score = -100})
           /\ \A j \in 1..n : \A k \in 1..n :
                 (r[j].final_score = -100 /\ r[k].final_score # -100)
                 => k < j

\* a batch whose first candidate failed and whose later candidates were
\* scored, the last of them highest
C14_FailureFirst ==
    /\ call.op = "batch_match_candidates"
    /\ Len(call.candidates) = 3
    /\ 1 \in FailingCandidates
    /\ 2 \notin FailingCandidates
    /\ 3 \notin FailingCandidates
    /\ call.rows[1].candidate_id = call.candidates[3].id
    /\ call.rows[2].candidate_id = call.candidates[2].id
    /\ call.rows[3].final_score = -100

\* the last call left the two tables and the fields of its instance as they
\* were
LastCallChangedNothing ==
    /\ Len(feedback) = call.rows_before
    /\ Len(weight_history) = call.history_before
    /\ fc[call.inst] = call.before

\* C15 as stated: get_feedback_analytics never raises, changes neither the
\* tables nor the weights, and whenever a storage read it performs fails it
\* returns the degraded payload, with total_feedback 0.
C15_AnyReadFailureDegrades ==
    call.op = "get_feedback_analytics"
    => /\ call.result = "ok"
       /\ LastCallChangedNothing
       /\ call.fault # "none"
          => /\ call.analytics.error
             /\ call.analytics.total_feedback = 0

\* C15 as amended: get_feedback_analytics never raises and changes neither
\* the tables nor the weights; when one of its own queries fails it returns
\* the degraded payload, with total_feedback 0; when only the count read of
\* its get_weights call fails it returns the full payload, in which
\* current_weights.total_feedback is 0.
C15_AnalyticsDegrades ==
    call.op = "get_feedback_analytics"
    => /\ call.result = "ok"
       /\ LastCallChangedNothing
       /\ call.fault = "analytics"
          => /\ call.analytics.error
             /\ call.analytics.total_feedback = 0
       /\ call.fault = "count"
          => /\ ~call.analytics.error
             /\ call.analytics.total_feedback = Len(feedback)
             /\ call.analytics.current_weights.total_feedback = 0
       /\ call.fault = "none"
          => /\ ~call.analytics.error
             /\ call.analytics.total_feedback = Len(feedback)
             /\ call.analytics.current_weights.total_feedback = Len(feedback)

\* the count read of get_weights has just failed inside an analytics call
\* over a table with rows: the payload is not the degraded one
C15_CountFailedOverRows ==
    /\ call.op = "get_feedback_analytics"
    /\ call.fault = "count"
    /\ ~call.analytics.error
    /\ call.analytics.total_feedback >= 5
    /\ call.analytics.current_weights.total_feedback = 0

\* C16: of two instances over one feedback store each holds its own weights:
\* a record_feedback or a reset_weights on one never changes the fields of
\* the other. (The two then report different weights over the same tables:
\* C16_InstancesDiverged.)
C16_InstancesIndependent ==
    [][\A i \in Instances :
         (call'.inst = i
            /\ call'.op \in {"record_feedback", "reset_weights"})
         => \A j \in Instances \ {i} : fc'[j] = fc[j]]_vars

\* get_weights on the two instances, with no write between the two reads, has
\* reported different weights
C16_InstancesDiverged ==
    /\ call.op = "get_weights"
    /\ snap[1].valid /\ ~snap[1].reset
    /\ snap[2].valid /\ ~snap[2].reset
    /\ snap[1].weights.total_feedback = snap[2].weights.total_feedback
    /\ ~SameWeights(snap[1].weights, snap[2].weights)

\* C17: the two tables are append-only: no step changes or removes a row of
\* feedback or of weight_history, and a successful record_feedback adds
\* exactly one feedback row and returns its id, which no earlier row has.
C17_AppendOnly ==
    [][/\ Len(feedback') >= Len(feedback)
       /\ SubSeq(feedback', 1, Len(feedback)) = feedback
       /\ Len(weight_history') >= Len(weight_history)
       /\ SubSeq(weight_history', 1, Len(weight_history)) = weight_history
       /\ (call'.op = "record_feedback" /\ call'.result = "ok")
          => /\ Len(feedback') = Len(feedback) + 1
             /\ call'.returned = ToString(feedback'[Len(feedback')].id)
             /\ \A k \in 1..Len(feedback) :
                   feedback[k].id # feedback'[Len(feedback')].id
       /\ call'.op \notin {"record_feedback", "reset_weights"}
          => UNCHANGED <<feedback, weight_history>>]_vars

\* a record_feedback has returned the id of its row after two history rows
\* were written
C17_RecordedAfterHistory ==
    /\ call.op = "record_feedback"
    /\ call.result = "ok"
    /\ call.returned = ToString(Len(feedback))
    /\ call.history_before >= 2

\* C18: the weights and the confidence of an instance change only in a
\* record_feedback that runs an adjustment pass and in reset_weights;
\* compute_match, get_weights, get_weight_history, get_feedback_analytics and
\* export_feedback_data leave them as they are.
C18_WeightsChangeOnlyInPassOrReset ==
    [][/\ fc' # fc
          => \/ call'.op = "reset_weights"
             \/ call'.op = "record_feedback" /\ call'.passes = 1
       /\ call'.op \in {"compute_match", "get_weights", "get_weight_history",
                        "get_feedback_analytics", "export_feedback_data"}
          => UNCHANGED <<fc, matcher>>]_vars

\* get_feedback_analytics has just reported weights that a pass had adjusted
C18_ReadOfAdjustedWeights ==
    /\ call.op = "get_feedback_analytics"
    /\ call.fault = "none"
    /\ call.analytics.current_weights.similarity_weight # 600
    /\ Weights(fc[1]) # [similarity_weight |-> 3, screening_weight |-> 2,
                          den |-> 5]

\* the table holds exactly five rows, each a "Not a Fit" of final_score 9.0
FiveRejectedHighScores ==
    /\ Len(feedback) = 5
    /\ \A k \in 1..5 :
          feedback[k].feedback = "Not a Fit" /\ feedback[k].final_score = 90

\* C19: from an empty store and the default weights, after five "Not a Fit"
\* entries of final_score 9.0 the pass of the fifth record has applied rule 1:
\* similarity_weight < 0.6, screening_weight > 0.4, the two sum to 1 and lie
\* within their clamp bounds, and confidence is still 0.5.
C19_FiveRejectedHighScores ==
    FiveRejectedHighScores
    => /\ call.op = "record_feedback"
       /\ call.passes = 1
       /\ call.pattern = 1
       /\ Len(weight_history) = 1
       /\ weight_history[1].trigger_action =
            "Reduce similarity weight (false positives detected)"
       /\ 10 * fc[1].similarity_weight < 6 * fc[1].den
       /\ 10 * fc[1].screening_weight > 4 * fc[1].den
       /\ fc[1].similarity_weight + fc[1].screening_weight = fc[1].den
       /\ 10 * fc[1].similarity_weight >= 3 * fc[1].den
       /\ 10 * fc[1].similarity_weight <= 8 * fc[1].den
       /\ 10 * fc[1].screening_weight >= 2 * fc[1].den
       /\ 10 * fc[1].screening_weight <= 7 * fc[1].den
       /\ fc[1].confidence = 10

\* the fifth "Not a Fit" of final_score 9.0 has been recorded
C19_FifthRecorded ==
    /\ FiveRejectedHighScores
    /\ call.op = "record_feedback"
    /\ call.result = "ok"
    /\ call.returned = "5"

\* the sum of the final scores (tenths) of the rows of the table with the
\* feedback value fb, and their number
RECURSIVE ScoreSumOf(_, _)
ScoreSumOf(fb, k) ==
    IF k = 0 THEN 0
    ELSE (IF feedback[k].feedback = fb THEN feedback[k].final_score ELSE 0)
         + ScoreSumOf(fb, k - 1)
CountOf(fb) == Cardinality({k \in 1..Len(feedback) : feedback[k].feedback = fb})

\* the conditions of the four rules over the whole table (SpecScenario keeps
\* it within the window of ten)
Rule1Holds ==
    CountOf("Not a Fit") > 0
    /\ ScoreSumOf("Not a Fit", Len(feedback)) > 65 * CountOf("Not a Fit")
Rule2Holds ==
    CountOf("Good Fit") > 0
    /\ ScoreSumOf("Good Fit", Len(feedback)) < 50 * CountOf("Good Fit")
Rule3Holds ==
    CountOf("Good Fit") > 0
    /\ ScoreSumOf("Good Fit", Len(feedback)) > 75 * CountOf("Good Fit")
Rule4Holds ==
    CountOf("Not a Fit") > 0
    /\ ScoreSumOf("Not a Fit", Len(feedback)) < 50 * CountOf("Not a Fit")

\* the rule of highest priority whose condition holds, 0 when none does
FirstRule ==
    IF Rule1Holds THEN 1 ELSE IF Rule2Holds THEN 2
    ELSE IF Rule3Holds THEN 3 ELSE IF Rule4Holds THEN 4 ELSE 0

\* C20: a pass applies at most one rule, the first in the order 1, 2, 3, 4
\* whose condition holds: the weights move by that rule's deltas only, and
\* the confidence grows only when that rule is 3 (by 0.1) or 4 (by 0.05),
\* capped at 0.95.
C20_FirstRuleOnly ==
    (call.op = "record_feedback" /\ call.passes = 1)
    => /\ call.pattern = FirstRule
       /\ weight_history[Len(weight_history)].trigger_action =
            trigger_action(FirstRule)
       /\ FirstRule \in {0, 4} => Weights(fc[1]) = Weights(call.before)
       /\ FirstRule = 1 =>
            /\ fc[1].similarity_weight * call.before.den
                 < call.before.similarity_weight * fc[1].den
            /\ fc[1].screening_weight * call.before.den
                 > call.before.screening_weight * fc[1].den
       /\ FirstRule = 2 =>
            /\ fc[1].similarity_weight * call.before.den
                 < call.before.similarity_weight * fc[1].den
            /\ fc[1].screening_weight * call.before.den
                 > call.before.screening_weight * fc[1].den
       /\ Weights(fc[1]) = AdjustedWeights(Weights(call.before), FirstRule)
       /\ fc[1].confidence =
            (CASE FirstRule = 3 -> Min(19, call.before.confidence + 2)
               [] FirstRule = 4 -> Min(19, call.before.confidence + 1)
               [] OTHER -> call.before.confidence)

\* a pass has applied rule 1 while the condition of rule 3 held too, and has
\* left the confidence as it was
C20_Rule1OverRule3 ==
    /\ call.op = "record_feedback"
    /\ call.passes = 1
    /\ Rule1Holds
    /\ Rule3Holds
    /\ call.pattern = 1
    /\ fc[1].confidence = call.before.confidence

\* the last row of weight_history
LastHistory == weight_history[Len(weight_history)]

\* C21: when a pass runs on a non-empty window and none of the four rule
\* conditions holds, similarity_weight, screening_weight and confidence are
\* unchanged, and exactly one history record is still appended, with an empty
\* trigger description and the unchanged weights.
C21_NoRuleKeepsFieldsAndRecords ==
    (call.op = "record_feedback" /\ call.passes = 1 /\ call.window > 0
     /\ FirstRule = 0)
    => /\ fc[1] = call.before
       /\ Len(weight_history) = call.history_before + 1
       /\ LastHistory.trigger_action = ""
       /\ LastHistory.similarity_weight = call.before.similarity_weight
       /\ LastHistory.screening_weight = call.before.screening_weight
       /\ LastHistory.den = call.before.den

\* a pass in which no rule held has run on weights an earlier pass had moved
C21_NoRuleAfterAdjustment ==
    /\ call.op = "record_feedback"
    /\ call.passes = 1
    /\ call.window > 0
    /\ FirstRule = 0
    /\ Weights(call.before) # DefaultWeights
    /\ Len(weight_history) = 2

C23_ConfidenceWithinCap ==
    /\ \A i \in Instances : fc[i].confidence >= 0 /\ fc[i].confidence <= 19
    /\ (call.op = "record_feedback" /\ call.passes = 1)
       => /\ FirstRule = 3
             => fc[1].confidence = Min(19, call.before.confidence + 2)
          /\ FirstRule = 4
             => fc[1].confidence = Min(19, call.before.confidence + 1)

\* a reinforcing pass has found the confidence at 0.9 and has left it at the
\* cap, 0.95
C23_CapReached ==
    /\ call.op = "record_feedback"
    /\ call.passes = 1
    /\ FirstRule = 3
    /\ call.before.confidence = 18
    /\ fc[1].confidence = 19

\* |5 * similarity_weight - 3|, |5 * screening_weight - 2| of object o, times
\* its denominator: five times its distances from 0.6 and from 0.4
SimilarityGap(o) ==
    IF 5 * o.similarity_weight >= 3 * o.den
    THEN 5 * o.similarity_weight - 3 * o.den
    ELSE 3 * o.den - 5 * o.similarity_weight
ScreeningGap(o) ==
    IF 5 * o.screening_weight >= 2 * o.den
    THEN 5 * o.screening_weight - 2 * o.den
    ELSE 2 * o.den - 5 * o.screening_weight

\* p/q < r/s for p, r >= 0 and q, s > 0, by the continued fractions of the
\* two (no product is formed: the denominators reach 2 * 10^8)
RECURSIVE FractionLess(_, _, _, _)
FractionLess(p, q, r, s) ==
    IF p \div q # r \div s THEN p \div q < r \div s
    ELSE IF r % s = 0 THEN FALSE
    ELSE IF p % q = 0 THEN TRUE
    ELSE FractionLess(s, r % s, q, p % q)

\* the weights rule 1 takes the defaults to, pass by pass, down to the clamp
\* bound: (0.6, 0.4), (0.55, 0.45), ..., (0.3, 0.7)
Rule1Chain ==
    {Reduce([similarity_weight |-> 12 - k, screening_weight |-> 8 + k,
             den |-> 20]) : k \in 0..6}

SeenIds == {call.seen[k] : k \in 1..Len(call.seen)}

\* C24: the window examined by the pass that a record_feedback call triggers
\* is exactly the min(10, n) most recently recorded entries (n the total
\* count), and it contains the entry written by that same call.
C24_WindowIsLatestWithOwnEntry ==
    (call.op = "record_feedback" /\ call.passes = 1)
    => LET n == Len(feedback)
       IN  /\ Len(call.seen) = Min(10, n)
           /\ SeenIds = (n - Min(10, n) + 1)..n
           /\ ToString(n) = call.returned
           /\ n \in SeenIds

\* C25: every adjustment pass, whether or not it changed the weights, appends
\* exactly one weight-history record: its similarity_weight, screening_weight
\* and confidence are the values after the pass, its trigger_action names the
\* rule that fired, and its feedback_count is the size of the window examined,
\* min(10, total feedback count).
C25_OneRecordPerPass ==
    (call.op = "record_feedback" /\ call.passes = 1)
    => /\ Len(weight_history) = call.history_before + 1
       /\ \A k \in 1..call.history_before :
             weight_history[k].id = k
       /\ LastHistory.id = Len(weight_history)
       /\ LastHistory.similarity_weight = fc[1].similarity_weight
       /\ LastHistory.screening_weight = fc[1].screening_weight
       /\ LastHistory.den = fc[1].den
       /\ LastHistory.confidence = fc[1].confidence
       /\ LastHistory.trigger_action =
            (CASE call.pattern = 1 ->
                    "Reduce similarity weight (false positives detected)"
               [] call.pattern = 2 ->
                    "Increase screening weight (good low-score candidates)"
               [] call.pattern = 3 ->
                    "Reinforce current weights (strong matches)"
               [] call.pattern = 4 ->
                    "Low scores consistently rejected (good filtering)"
               [] OTHER -> "")
       /\ LastHistory.feedback_count = call.window
       /\ LastHistory.feedback_count = Min(10, Len(feedback))

\* a pass over a table of more than ten rows has appended its record, and the
\* pass has left the weights as they were (at the clamp bound)
C25_RecordOfCappedWindow ==
    /\ call.op = "record_feedback"
    /\ call.passes = 1
    /\ Len(feedback) = 11
    /\ LastHistory.feedback_count = 10
    /\ Weights(fc[1]) = Weights(call.before)

\* C26: for a single instance with no storage failures, after every
\* record_feedback that ran a pass and after every reset_weights, the most
\* recently appended weight-history record equals the instance's current
\* similarity_weight, screening_weight and confidence.
C26_LastHistoryIsCurrent ==
    ((call.op = "record_feedback" /\ call.passes = 1)
     \/ call.op = "reset_weights")
    => /\ Len(weight_history) = call.history_before + 1
       /\ LastHistory.similarity_weight = fc[1].similarity_weight
       /\ LastHistory.screening_weight = fc[1].screening_weight
       /\ LastHistory.den = fc[1].den
       /\ LastHistory.confidence = fc[1].confidence

\* a pass has moved the weights and confidence off the defaults after a reset
\* had appended its record
C26_PassAfterReset ==
    /\ call.op = "record_feedback"
    /\ call.passes = 1
    /\ Len(weight_history) >= 2
    /\ weight_history[Len(weight_history) - 1].trigger_action =
         "Manual reset to defaults"
    /\ Weights(fc[1]) # DefaultWeights

\* the number of rows at the end of weight_history that rule 1 has written
RECURSIVE Rule1Run(_)
Rule1Run(n) ==
    IF n = 0 THEN 0
    ELSE IF weight_history[n].trigger_action
              = "Reduce similarity weight (false positives detected)"
    THEN 1 + Rule1Run(n - 1)
    ELSE 0

\* every pass since the defaults were in force (at construction or by a reset)
\* has fired rule 1
OnlyRule1SinceDefaults ==
    LET n == Len(weight_history)
        k == Rule1Run(n)
    IN  /\ k > 0
        /\ k = n \/ weight_history[n - k].trigger_action
                      = "Manual reset to defaults"

\* C28: if every adjustment pass fires rule 1, the weights reach (0.3, 0.7)
\* with the sixth pass from the defaults (0.6 - 0.05 k and 0.4 + 0.05 k after
\* k < 6 passes), and every further rule-1 pass leaves them at that bound while
\* it still appends a history record.
C28_Rule1ReachesBound ==
    /\ OnlyRule1SinceDefaults
       => LET k == Rule1Run(Len(weight_history))
          IN  /\ k < 6 =>
                    /\ 20 * fc[1].similarity_weight = (12 - k) * fc[1].den
                    /\ 20 * fc[1].screening_weight = (8 + k) * fc[1].den
              /\ k >= 6 =>
                    /\ 10 * fc[1].similarity_weight = 3 * fc[1].den
                    /\ 10 * fc[1].screening_weight = 7 * fc[1].den
    /\ (call.op = "record_feedback" /\ call.passes = 1 /\ call.pattern = 1
        /\ 10 * call.before.similarity_weight = 3 * call.before.den
        /\ 10 * call.before.screening_weight = 7 * call.before.den)
       => /\ Weights(fc[1]) = Weights(call.before)
          /\ Len(weight_history) = call.history_before + 1
          /\ LastHistory.trigger_action
               = "Reduce similarity weight (false positives detected)"

\* a seventh rule-1 pass in a row has run with the weights at (0.3, 0.7)
C28_SeventhPassAtBound ==
    /\ OnlyRule1SinceDefaults
    /\ Rule1Run(Len(weight_history)) = 7
    /\ call.op = "record_feedback"
    /\ call.pattern = 1
    /\ 10 * call.before.similarity_weight = 3 * call.before.den
    /\ 10 * fc[1].similarity_weight = 3 * fc[1].den

\* C29: a newly constructed instance starts with weights (0.6, 0.4) and
\* confidence 0.5 whatever the weight history holds, and the construction
\* leaves both tables as they are; its trigger threshold uses the persisted
\* count: over a store of at least 4 entries the first successful
\* record_feedback of the instance runs a pass, which starts from the defaults.
C29_NewInstanceStartsFromDefaults ==
    [][/\ call'.op = "init"
          => /\ fc'[call'.inst] = NewCollector
             /\ UNCHANGED <<feedback, weight_history>>
       /\ (call.op = "init" /\ call'.op = "record_feedback"
           /\ call'.result = "ok" /\ Len(feedback) >= 4)
          => /\ call'.passes = 1
             /\ call'.before = NewCollector
             /\ Len(weight_history') = Len(weight_history) + 1
             /\ Weights(fc'[call'.inst])
                  = AdjustedWeights(DefaultWeights, call'.pattern)
             /\ fc'[call'.inst].confidence
                  = AdjustedConfidence(call'.pattern, DefaultConfidence)]_vars

\* an instance constructed over a weight history whose latest row holds
\* adjusted weights has run the pass of its first record_feedback from the
\* defaults
C29_FirstPassAfterRestart ==
    /\ call.op = "record_feedback"
    /\ call.result = "ok"
    /\ call.passes = 1
    /\ call.before = NewCollector
    /\ call.history_before > 0
    /\ 5 * weight_history[call.history_before].similarity_weight
         # 3 * weight_history[call.history_before].den
    /\ Weights(fc[1]) # DefaultWeights

\* C30: every payload get_feedback_analytics returns without an error
\* satisfies good_fit_count + not_fit_count = total_feedback, and its
\* current_weights.total_feedback equals total_feedback, also when another
\* instance commits a record_feedback while the call is reading the store.
C30_AnalyticsCountsAgree ==
    (call.op = "get_feedback_analytics" /\ ~call.analytics.error)
    => /\ call.analytics.good_fit_count + call.analytics.not_fit_count
            = call.analytics.total_feedback
       /\ call.analytics.current_weights.total_feedback
            = call.analytics.total_feedback

=============================================================================
